---- MODULE Spec2Model ----
(***************************************************************************)
(* The command interpreter of console.py (class HBNBCommand) as a state    *)
(* machine.                                                                *)
(*                                                                         *)
(* A Python string is a sequence of atoms.  An atom is one of the          *)
(* characters the code treats specially (space, the two quotes, ".", "(",  *)
(* ")", ",") or a maximal run of other characters ("User", "u1", "89").    *)
(* Tokenizing, splitting, stripping and formatting work on these           *)
(* sequences as the Python operations work on characters.                  *)
(***************************************************************************)
EXTENDS Integers, Sequences, FiniteSets, TLC

VARIABLES
    objects,    \* storage.all(): the live mapping, a sequence of entries in insertion order
    snapshot,   \* the persisted file: the mapping as storage.save() last wrote it
    issued,     \* how many ids uuid4 has handed out so far
    mode,       \* "prompt" | "ran" | "stopped" | "crashed": where cmdloop() is
    cmd,        \* the line being processed
    out,        \* what the command in progress wrote to standard output, line by line
    stop        \* the value the handler returned to cmdloop()

vars == <<objects, snapshot, issued, mode, cmd, out, stop>>

\* How many objects one run constructs.
MaxCreated == 2

SP == " "
DQ == "\""
SQ == "'"
DOT == "."
LP == "("
RP == ")"
COMMA == ","

-----------------------------------------------------------------------------
(* Python string operations.                                               *)

\* str.strip(chars): drop leading and trailing atoms that are in chars.
RECURSIVE lstrip(_, _)
lstrip(s, chars) ==
    IF s # <<>> /\ Head(s) \in chars THEN lstrip(Tail(s), chars) ELSE s

RECURSIVE rstrip(_, _)
rstrip(s, chars) ==
    IF s # <<>> /\ s[Len(s)] \in chars
    THEN rstrip(SubSeq(s, 1, Len(s) - 1), chars) ELSE s

strip(s, chars) == rstrip(lstrip(s, chars), chars)

\* str.split(sep) for a one-character sep: the pieces between the
\* separators, always at least one piece.
RECURSIVE str_split_from(_, _, _, _, _)
str_split_from(s, sep, i, cur, acc) ==
    IF i > Len(s) THEN Append(acc, cur)
    ELSE IF s[i] = sep THEN str_split_from(s, sep, i + 1, <<>>, Append(acc, cur))
    ELSE str_split_from(s, sep, i + 1, Append(cur, s[i]), acc)

str_split(s, sep) == str_split_from(s, sep, 1, <<>>, <<>>)

\* shlex.split(arg): whitespace separates tokens, a quote of either kind
\* opens a quoted stretch that runs to the next quote of the same kind, and
\* a quoted stretch makes a token even when it is empty.  ok is FALSE when
\* the text ends inside a quoted stretch (ValueError: No closing quotation).
RECURSIVE shlex_scan(_, _, _, _, _, _)
shlex_scan(s, i, cur, has, q, acc) ==
    IF i > Len(s) THEN
        IF q # "" THEN [ok |-> FALSE, toks |-> <<>>]
        ELSE [ok |-> TRUE, toks |-> IF has THEN Append(acc, cur) ELSE acc]
    ELSE IF q # "" THEN
        IF s[i] = q THEN shlex_scan(s, i + 1, cur, has, "", acc)
        ELSE shlex_scan(s, i + 1, Append(cur, s[i]), has, q, acc)
    ELSE IF s[i] = SP THEN
        IF has THEN shlex_scan(s, i + 1, <<>>, FALSE, "", Append(acc, cur))
        ELSE shlex_scan(s, i + 1, cur, has, q, acc)
    ELSE IF s[i] \in {DQ, SQ} THEN shlex_scan(s, i + 1, cur, TRUE, s[i], acc)
    ELSE shlex_scan(s, i + 1, Append(cur, s[i]), TRUE, "", acc)

split(s) == shlex_scan(s, 1, <<>>, FALSE, "", <<>>)

-----------------------------------------------------------------------------
(* The domain classes and the storage engine (models/, not part of         *)
(* console.py).                                                            *)

\* class_mapping with one entry forgotten.
class_mapping_short ==
    [n \in {"BaseModel", "User", "Place", "State", "City", "Amenity"} |-> n]

\* HBNBCommand.class_mapping: class name -> class.
class_mapping ==
    [n \in {"BaseModel", "User", "Place", "State", "City", "Amenity", "Review"} |-> n]

\* The class a token names in class_mapping; "" when it names none.
class_of(tok) ==
    IF Len(tok) = 1 /\ tok[1] \in DOMAIN class_mapping THEN class_mapping[tok[1]] ELSE ""

\* isinstance(obj, class_type): every model class derives from BaseModel.
isinstance(obj, class_type) == obj.cls = class_type \/ class_type = "BaseModel"

ID == <<"id">>

\* uuid4(): the n-th id handed out; no two are equal.
UuidPool == <<"u1", "u2", "u3", "u4">>
uuid4(n) == <<UuidPool[n]>>

\* BaseModel.__init__: a fresh id; the other attributes come later.
new_object(cls, n) == [cls |-> cls, attrs |-> [a \in {ID} |-> uuid4(n)]]

\* The key under which storage.new() files an object: "<ClassName>.<id>".
key_of(obj) == <<obj.cls, DOT>> \o obj.attrs[ID]

\* storage.new(obj)
storage_new(objs, obj) == Append(objs, [key |-> key_of(obj), obj |-> obj])

\* storage.save(): the whole mapping is written out.
storage_save(objs) == objs

\* storage.reload(): the mapping as last written.
storage_reload(snap) == snap

\* str(obj): "[<ClassName>] (<id>) <attribute mapping>"
str_of(obj) == [kind |-> "obj", cls |-> obj.cls, id |-> obj.attrs[ID], dict |-> obj.attrs]

\* setattr(obj, name, value): __class__ takes only a class (TypeError for a
\* string); any other name becomes an attribute of the object.
setattr_raises(name) == name = <<"__class__">>

setattr(obj, name, value) ==
    [obj EXCEPT !.attrs =
        [a \in DOMAIN obj.attrs \cup {name} |-> IF a = name THEN value ELSE obj.attrs[a]]]

\* storage.all().get(key): the index of the entry, 0 for None.
get(objs, key) ==
    IF \E i \in 1..Len(objs) : objs[i].key = key
    THEN CHOOSE i \in 1..Len(objs) : objs[i].key = key
    ELSE 0

\* del storage.all()[key]
del(objs, key) == SelectSeq(objs, LAMBDA e : e.key # key)

-----------------------------------------------------------------------------
(* What a handler leaves behind: the mapping, the file, the id counter,    *)
(* the lines it printed, its return value and the exception that escaped   *)
(* it ("" for none).                                                       *)

Err(text) == [kind |-> "err", text |-> text]

emit(st, lines) ==
    [objs |-> st.objs, snap |-> st.snap, issued |-> st.issued,
     out |-> lines, stop |-> FALSE, exc |-> ""]

raise(st, e) ==
    [objs |-> st.objs, snap |-> st.snap, issued |-> st.issued,
     out |-> <<>>, stop |-> FALSE, exc |-> e]

E_CLASS_MISSING == Err("** class name missing **")
E_NO_CLASS == Err("** class doesn't exist **")
E_ID_MISSING == Err("** instance id missing **")
E_NOT_FOUND == Err("** no instance found **")
E_ATTR_MISSING == Err("** attribute name missing **")
E_VALUE_MISSING == Err("** value missing **")
E_QUIT == Err("** Invalid command for quit. Type 'quit' to exit.")
E_SETATTR == Err("** __class__ must be set to a class, not 'str' object")
unknown_syntax(line) == [kind |-> "err", text |-> "*** Unknown syntax: {}", line |-> line]

do_quit(st, arg) ==
    IF strip(arg, {SP}) = <<>> THEN [emit(st, <<>>) EXCEPT !.stop = TRUE]
    ELSE emit(st, <<E_QUIT>>)

do_EOF(st, arg) == [emit(st, <<[kind |-> "blank"]>>) EXCEPT !.stop = TRUE]

emptyline(st) == emit(st, <<>>)

do_create(st, arg) ==
    LET sp == split(arg)
        args == sp.toks
    IN  IF ~sp.ok THEN raise(st, "ValueError")
        ELSE IF args = <<>> \/ args[1] = <<>> THEN emit(st, <<E_CLASS_MISSING>>)
        ELSE IF class_of(args[1]) = "" THEN emit(st, <<E_NO_CLASS>>)
        ELSE LET new_instance == new_object(class_of(args[1]), st.issued + 1)
                 objs == storage_new(st.objs, new_instance)
             IN  [objs |-> objs, snap |-> storage_save(objs), issued |-> st.issued + 1,
                  out |-> <<[kind |-> "id", id |-> new_instance.attrs[ID]]>>,
                  stop |-> FALSE, exc |-> ""]

\* do_show printing every object it selected instead of the first.
do_show_every(st, arg) ==
    LET sp == split(arg)
        args == sp.toks
    IN  IF ~sp.ok THEN raise(st, "ValueError")
        ELSE IF args = <<>> \/ args[1] = <<>> THEN emit(st, <<E_CLASS_MISSING>>)
        ELSE IF Len(args) < 2 THEN emit(st, <<E_ID_MISSING>>)
        ELSE IF class_of(args[1]) # "" THEN
            LET instance_objects ==
                    SelectSeq(st.objs, LAMBDA e :
                        isinstance(e.obj, class_of(args[1])) /\ e.obj.attrs[ID] = args[2])
            IN  IF instance_objects # <<>>
                THEN emit(st, [k \in 1..Len(instance_objects) |-> str_of(instance_objects[k].obj)])
                ELSE emit(st, <<E_NOT_FOUND>>)
        ELSE emit(st, <<E_NO_CLASS>>)

do_show(st, arg) ==
    LET sp == split(arg)
        args == sp.toks
    IN  IF ~sp.ok THEN raise(st, "ValueError")
        ELSE IF args = <<>> \/ args[1] = <<>> THEN emit(st, <<E_CLASS_MISSING>>)
        ELSE IF Len(args) < 2 THEN emit(st, <<E_ID_MISSING>>)
        ELSE IF class_of(args[1]) # "" THEN
            LET instance_objects ==
                    SelectSeq(st.objs, LAMBDA e :
                        isinstance(e.obj, class_of(args[1])) /\ e.obj.attrs[ID] = args[2])
            IN  IF instance_objects # <<>>
                THEN emit(st, <<str_of(instance_objects[1].obj)>>)
                ELSE emit(st, <<E_NOT_FOUND>>)
        ELSE emit(st, <<E_NO_CLASS>>)

\* do_destroy without its storage.save().
do_destroy_unsaved(st, arg) ==
    LET sp == split(arg)
        args == sp.toks
    IN  IF ~sp.ok THEN raise(st, "ValueError")
        ELSE IF args = <<>> \/ args[1] = <<>> THEN emit(st, <<E_CLASS_MISSING>>)
        ELSE IF Len(args) < 2 THEN emit(st, <<E_ID_MISSING>>)
        ELSE LET key == args[1] \o <<DOT>> \o args[2]
             IN  IF get(st.objs, key) = 0 THEN emit(st, <<E_NOT_FOUND>>)
                 ELSE [objs |-> del(st.objs, key), snap |-> st.snap, issued |-> st.issued,
                       out |-> <<>>, stop |-> FALSE, exc |-> ""]

\* do_destroy removing every object that carries the id instead of the one
\* entry under the key.
do_destroy_by_id(st, arg) ==
    LET sp == split(arg)
        args == sp.toks
    IN  IF ~sp.ok THEN raise(st, "ValueError")
        ELSE IF args = <<>> \/ args[1] = <<>> THEN emit(st, <<E_CLASS_MISSING>>)
        ELSE IF Len(args) < 2 THEN emit(st, <<E_ID_MISSING>>)
        ELSE LET key == args[1] \o <<DOT>> \o args[2]
             IN  IF get(st.objs, key) = 0 THEN emit(st, <<E_NOT_FOUND>>)
                 ELSE LET objs == SelectSeq(st.objs, LAMBDA e : e.obj.attrs[ID] # args[2])
                      IN  [objs |-> objs, snap |-> storage_save(objs), issued |-> st.issued,
                           out |-> <<>>, stop |-> FALSE, exc |-> ""]

do_destroy(st, arg) ==
    LET sp == split(arg)
        args == sp.toks
    IN  IF ~sp.ok THEN raise(st, "ValueError")
        ELSE IF args = <<>> \/ args[1] = <<>> THEN emit(st, <<E_CLASS_MISSING>>)
        ELSE IF Len(args) < 2 THEN emit(st, <<E_ID_MISSING>>)
        ELSE LET key == args[1] \o <<DOT>> \o args[2]
             IN  IF get(st.objs, key) = 0 THEN emit(st, <<E_NOT_FOUND>>)
                 ELSE LET objs == del(st.objs, key)
                      IN  [objs |-> objs, snap |-> storage_save(objs), issued |-> st.issued,
                           out |-> <<>>, stop |-> FALSE, exc |-> ""]

\* do_all selecting with isinstance() instead of the exact class name.
do_all_isinstance(st, arg) ==
    LET sp == split(arg)
        args == sp.toks
        strs(sel) == [i \in 1..Len(sel) |-> str_of(sel[i].obj)]
    IN  IF ~sp.ok THEN raise(st, "ValueError")
        ELSE IF args = <<>> \/ args[1] = <<>>
        THEN emit(st, <<[kind |-> "list", items |-> strs(st.objs)]>>)
        ELSE LET obj_list == strs(SelectSeq(st.objs, LAMBDA e :
                                 class_of(args[1]) # "" /\ isinstance(e.obj, class_of(args[1]))))
             IN  IF obj_list = <<>> THEN emit(st, <<E_NO_CLASS>>)
                 ELSE emit(st, <<[kind |-> "list", items |-> obj_list]>>)

\* do_all reporting a class as missing when class_mapping does not have it,
\* and printing the list, empty or not, when it has.
do_all_registry(st, arg) ==
    LET sp == split(arg)
        args == sp.toks
        strs(sel) == [i \in 1..Len(sel) |-> str_of(sel[i].obj)]
    IN  IF ~sp.ok THEN raise(st, "ValueError")
        ELSE IF args = <<>> \/ args[1] = <<>>
        THEN emit(st, <<[kind |-> "list", items |-> strs(st.objs)]>>)
        ELSE IF class_of(args[1]) = "" THEN emit(st, <<E_NO_CLASS>>)
        ELSE emit(st, <<[kind |-> "list", items |->
                           strs(SelectSeq(st.objs, LAMBDA e : args[1] = <<e.obj.cls>>))]>>)

do_all(st, arg) ==
    LET sp == split(arg)
        args == sp.toks
        strs(sel) == [i \in 1..Len(sel) |-> str_of(sel[i].obj)]
    IN  IF ~sp.ok THEN raise(st, "ValueError")
        ELSE IF args = <<>> \/ args[1] = <<>>
        THEN emit(st, <<[kind |-> "list", items |-> strs(st.objs)]>>)
        ELSE LET obj_list == strs(SelectSeq(st.objs, LAMBDA e : args[1] = <<e.obj.cls>>))
             IN  IF obj_list = <<>> THEN emit(st, <<E_NO_CLASS>>)
                 ELSE emit(st, <<[kind |-> "list", items |-> obj_list]>>)

\* do_update checking for the attribute name before it looks the object up.
do_update_attr_first(st, arg) ==
    LET sp == split(arg)
        args == sp.toks
    IN  IF ~sp.ok THEN raise(st, "ValueError")
        ELSE IF args = <<>> \/ args[1] = <<>> THEN emit(st, <<E_CLASS_MISSING>>)
        ELSE IF Len(args) < 2 THEN emit(st, <<E_ID_MISSING>>)
        ELSE IF Len(args) < 3 THEN emit(st, <<E_ATTR_MISSING>>)
        ELSE LET key == args[1] \o <<DOT>> \o args[2]
                 i == get(st.objs, key)
             IN  IF i = 0 THEN emit(st, <<E_NOT_FOUND>>)
                 ELSE IF Len(args) < 4 THEN emit(st, <<E_VALUE_MISSING>>)
                 ELSE IF setattr_raises(args[3]) THEN emit(st, <<E_SETATTR>>)
                 ELSE LET objs == [st.objs EXCEPT ![i].obj = setattr(@, args[3], args[4])]
                      IN  [objs |-> objs, snap |-> storage_save(objs), issued |-> st.issued,
                           out |-> <<>>, stop |-> FALSE, exc |-> ""]

\* do_update storing the empty string before it reports a missing value.
do_update_empty_value(st, arg) ==
    LET sp == split(arg)
        args == sp.toks
    IN  IF ~sp.ok THEN raise(st, "ValueError")
        ELSE IF args = <<>> \/ args[1] = <<>> THEN emit(st, <<E_CLASS_MISSING>>)
        ELSE IF Len(args) < 2 THEN emit(st, <<E_ID_MISSING>>)
        ELSE LET key == args[1] \o <<DOT>> \o args[2]
                 i == get(st.objs, key)
             IN  IF i = 0 THEN emit(st, <<E_NOT_FOUND>>)
                 ELSE IF Len(args) < 3 THEN emit(st, <<E_ATTR_MISSING>>)
                 ELSE IF Len(args) < 4 THEN
                     LET objs == [st.objs EXCEPT ![i].obj = setattr(@, args[3], <<>>)]
                     IN  [objs |-> objs, snap |-> storage_save(objs), issued |-> st.issued,
                          out |-> <<E_VALUE_MISSING>>, stop |-> FALSE, exc |-> ""]
                 ELSE IF setattr_raises(args[3]) THEN emit(st, <<E_SETATTR>>)
                 ELSE LET objs == [st.objs EXCEPT ![i].obj = setattr(@, args[3], args[4])]
                      IN  [objs |-> objs, snap |-> storage_save(objs), issued |-> st.issued,
                           out |-> <<>>, stop |-> FALSE, exc |-> ""]

do_update(st, arg) ==
    LET sp == split(arg)
        args == sp.toks
    IN  IF ~sp.ok THEN raise(st, "ValueError")
        ELSE IF args = <<>> \/ args[1] = <<>> THEN emit(st, <<E_CLASS_MISSING>>)
        ELSE IF Len(args) < 2 THEN emit(st, <<E_ID_MISSING>>)
        ELSE LET key == args[1] \o <<DOT>> \o args[2]
                 i == get(st.objs, key)
             IN  IF i = 0 THEN emit(st, <<E_NOT_FOUND>>)
                 ELSE IF Len(args) < 3 THEN emit(st, <<E_ATTR_MISSING>>)
                 ELSE IF Len(args) < 4 THEN emit(st, <<E_VALUE_MISSING>>)
                 ELSE IF setattr_raises(args[3]) THEN emit(st, <<E_SETATTR>>)
                 ELSE LET objs == [st.objs EXCEPT ![i].obj = setattr(@, args[3], args[4])]
                      IN  [objs |-> objs, snap |-> storage_save(objs), issued |-> st.issued,
                           out |-> <<>>, stop |-> FALSE, exc |-> ""]

\* do_count counting only the objects whose own class is the one named.
do_count_exact(st, arg) ==
    LET sp == split(arg)
        args == sp.toks
    IN  IF ~sp.ok THEN raise(st, "ValueError")
        ELSE IF args = <<>> \/ args[1] = <<>> THEN emit(st, <<E_CLASS_MISSING>>)
        ELSE IF class_of(args[1]) = "" THEN emit(st, <<E_NO_CLASS>>)
        ELSE emit(st, <<[kind |-> "count",
                         n |-> Len(SelectSeq(st.objs, LAMBDA e :
                                       e.obj.cls = class_of(args[1])))]>>)

do_count(st, arg) ==
    LET sp == split(arg)
        args == sp.toks
    IN  IF ~sp.ok THEN raise(st, "ValueError")
        ELSE IF args = <<>> \/ args[1] = <<>> THEN emit(st, <<E_CLASS_MISSING>>)
        ELSE IF class_of(args[1]) = "" THEN emit(st, <<E_NO_CLASS>>)
        ELSE emit(st, <<[kind |-> "count",
                         n |-> Len(SelectSeq(st.objs, LAMBDA e :
                                       isinstance(e.obj, class_of(args[1]))))]>>)

\* dir(self) filtered on "do_": the command verbs, in dir()'s sorted order.
Verbs == <<"EOF", "all", "count", "create", "destroy", "help", "quit", "show", "update">>

IsVerb(w) == \E i \in 1..Len(Verbs) : Verbs[i] = w

\* Each print() of do_help is a text line followed by, or preceded by, a
\* blank line; a docstring is taken as one line of text.
do_help(st, arg) ==
    IF arg = <<>> THEN
        emit(st, <<[kind |-> "blank"], [kind |-> "help", text |-> "Documented commands"],
                   [kind |-> "help", text |-> "===="], [kind |-> "blank"]>>
                 \o [i \in 1..(2 * Len(Verbs)) |->
                        IF i % 2 = 1 THEN [kind |-> "help", text |-> Verbs[(i + 1) \div 2]]
                        ELSE [kind |-> "blank"]])
    ELSE IF Len(arg) = 1 /\ IsVerb(arg[1]) THEN
        emit(st, <<[kind |-> "help", text |-> "Help for {}:"],
                   [kind |-> "help", text |-> arg[1]]>>)
    ELSE emit(st, <<[kind |-> "err", text |-> "** No help available for {} **", line |-> arg]>>)

\* default(line): the dotted forms <class>.<command>(<arguments>).  An
\* index past the end of a split is IndexError, which the handler catches;
\* whatever a redispatched handler raises is not caught here.
default(st, line) ==
    LET args0 == str_split(line, DOT)
        class_arg == args0[1]
        args1 == str_split(args0[2], LP)
        command == args1[1]
    IN  IF Len(args0) = 1 THEN emit(st, <<unknown_syntax(line)>>)
        ELSE IF command = <<"all">> THEN do_all(st, class_arg)
        ELSE IF command = <<"count">> THEN do_count(st, class_arg)
        ELSE IF command = <<"show">> THEN
            IF Len(args1) < 2 THEN emit(st, <<unknown_syntax(line)>>)
            ELSE LET id_arg == strip(strip(str_split(args1[2], RP)[1], {SQ}), {DQ})
                 IN  do_show(st, class_arg \o <<SP>> \o id_arg)
        ELSE IF command = <<"destroy">> THEN
            IF Len(args1) < 2 THEN emit(st, <<unknown_syntax(line)>>)
            ELSE LET id_arg == strip(strip(str_split(args1[2], RP)[1], {DQ}), {SQ})
                 IN  do_destroy(st, class_arg \o <<SP>> \o id_arg)
        ELSE IF command = <<"update">> THEN
            IF Len(args1) < 2 THEN emit(st, <<unknown_syntax(line)>>)
            ELSE LET args2 == str_split(args1[2], COMMA)
                 IN  IF Len(args2) < 3 THEN emit(st, <<unknown_syntax(line)>>)
                     ELSE LET id_arg == strip(strip(args2[1], {SQ}), {DQ})
                              name_arg == strip(strip(strip(strip(args2[2], {COMMA}),
                                                            {SP}), {SQ}), {DQ})
                              val_arg == strip(strip(args2[3], {SP}), {RP})
                          IN  do_update(st, class_arg \o <<SP>> \o id_arg \o <<SP>>
                                            \o name_arg \o <<SP>> \o val_arg)
        ELSE emit(st, <<unknown_syntax(line)>>)

-----------------------------------------------------------------------------
(* cmd.Cmd: parseline() and onecmd().                                      *)

\* parseline(): the stripped line, its leading run of identifier characters
\* as the command, and the stripped rest as the argument.
Special == {SP, DQ, SQ, DOT, LP, RP, COMMA}

parseline(line) ==
    LET l == strip(line, {SP})
    IN  IF l = <<>> THEN [cmd |-> "", arg |-> <<>>, line |-> l]
        ELSE IF l[1] \in Special THEN [cmd |-> "", arg |-> l, line |-> l]
        ELSE [cmd |-> l[1], arg |-> strip(Tail(l), {SP}), line |-> l]

\* The handler onecmd() picks for a line.
handler(line) ==
    LET p == parseline(line)
    IN  IF p.line = <<>> THEN "emptyline"
        ELSE IF IsVerb(p.cmd) THEN p.cmd
        ELSE "default"

onecmd(st, line) ==
    LET p == parseline(line)
        h == handler(line)
    IN  CASE h = "emptyline" -> emptyline(st)
          [] h = "quit" -> do_quit(st, p.arg)
          [] h = "EOF" -> do_EOF(st, p.arg)
          [] h = "create" -> do_create(st, p.arg)
          [] h = "show" -> do_show(st, p.arg)
          [] h = "destroy" -> do_destroy(st, p.arg)
          [] h = "all" -> do_all(st, p.arg)
          [] h = "update" -> do_update(st, p.arg)
          [] h = "count" -> do_count(st, p.arg)
          [] h = "help" -> do_help(st, p.arg)
          [] OTHER -> default(st, p.line)

-----------------------------------------------------------------------------
(* The lines typed at the prompt.                                          *)

L1(v, a) == <<v, SP>> \o a
L2(v, a, b) == L1(v, a) \o <<SP>> \o b
L3(v, a, b, c) == L2(v, a, b) \o <<SP>> \o c
L4(v, a, b, c, d) == L3(v, a, b, c) \o <<SP>> \o d
Quoted(t) == <<DQ>> \o t \o <<DQ>>

\* Every class name of class_mapping, and one that is not in it.
AllClassToks ==
    {<<"BaseModel">>, <<"User">>, <<"Place">>, <<"State">>, <<"City">>, <<"Amenity">>,
     <<"Review">>, <<"Foo">>}

\* Class names typed in create lines: the base class, two of its subclasses
\* and the unknown name.
CreateToks == {<<"BaseModel">>, <<"User">>, <<"Review">>, <<"Foo">>}

\* Class names typed in the other lines: those, and a class of class_mapping
\* that never has an instance.
ClassToks == CreateToks \cup {<<"City">>}

\* Ids typed: the ids create can print, and one string that is no id.
Uuids(n) == {UuidPool[i] : i \in 1..n}
IdToks == {<<u>> : u \in Uuids(MaxCreated)} \cup {<<"89">>}

\* An id can be typed only once create has printed it.
Typeable(line, n) ==
    \A i \in 1..Len(line) : line[i] \in Uuids(Len(UuidPool)) => line[i] \in Uuids(n)

\* Classes named in update lines.
UpdClassToks == {<<"BaseModel">>, <<"User">>, <<"Foo">>}

\* Attribute and value pairs typed in update lines: a numeric-looking name,
\* an attribute Python refuses to set, and the id printed first as a new id.
AttrVals ==
    {<<<<"name">>, Quoted(<<"89">>)>>, <<<<"__class__">>, <<"89">>>>, <<ID, <<"u1">>>>}

CreateLines ==
    {<<"create">>, <<"create", SP, DQ, DQ>>, <<"create", SP, DQ, "User">>}
    \cup {L1("create", c) : c \in CreateToks}

FindLines(v) ==
    {<<v>>, L1(v, <<"User">>), <<v, SP, "User", SP, SQ, "u1">>}
    \cup {L2(v, c, i) : c \in ClassToks, i \in IdToks}

ShowLines == FindLines("show")
DestroyLines == FindLines("destroy")

ClassLines(v) ==
    {<<v>>, <<v, SP, DQ, DQ>>, <<v, SP, DQ, "User">>} \cup {L1(v, c) : c \in ClassToks}

AllLines == ClassLines("all")
CountLines == ClassLines("count")

UpdateLines ==
    {<<"update">>, L1("update", <<"User">>), <<"update", SP, "User", SP, "u1", SP, "name", SP, DQ, "89">>}
    \cup {L2("update", c, i) : c \in UpdClassToks, i \in IdToks}
    \cup {L3("update", c, i, <<"name">>) : c \in UpdClassToks, i \in IdToks}
    \cup {L4("update", c, i, av[1], av[2]) : c \in UpdClassToks, i \in IdToks, av \in AttrVals}

QuitLines == {<<"quit">>, <<"quit", SP, SP>>, L1("quit", <<"now">>)}
EOFLines == {<<"EOF">>}
HelpLines == {<<"help">>, L1("help", <<"quit">>), L1("help", <<"foo">>)}
EmptyLines == {<<>>, <<SP>>}

Call(c, v, inner) == <<c, DOT, v, LP>> \o inner \o <<RP>>

\* The argument text of a dotted update: "<id>", "<name>", <value>
UpdateArgs(i, a, v) == Quoted(i) \o <<COMMA, SP>> \o Quoted(a) \o <<COMMA, SP>> \o v

\* An id token that is the id printed first followed by ".x".
DottedId == <<"u1", DOT, "x">>

\* Values with a "." or a "," inside, typed bare or between quotes.
InnerVals == {<<"8", DOT, "9">>, <<"8", COMMA, "9">>}
PunctVals == InnerVals \cup {Quoted(v) : v \in InnerVals}

DefaultLines ==
    {<<"foo">>, Call("Foo", "bar", <<>>), <<"User", DOT, "show">>,
     <<"User", DOT, "all">>, <<"User", DOT, "count">>,
     <<"User", DOT, "destroy", LP>> \o Quoted(<<"u1">>),
     Call("User", "show", <<DQ, "a", SQ, "b", DQ>>),
     Call("User", "show", Quoted(DottedId)), Call("User", "destroy", Quoted(DottedId)),
     Call("User", "update", Quoted(<<"u1">>) \o <<COMMA, SP>> \o Quoted(<<"name">>))}
    \cup {Call("User", "update", UpdateArgs(<<"u1">>, <<"name">>, v)) : v \in PunctVals}
    \cup {Call(c, v, <<>>) : c \in {"User", "Foo"}, v \in {"all", "count"}}
    \cup {Call(c, v, Quoted(i)) : c \in {"User", "BaseModel"}, v \in {"show", "destroy"}, i \in IdToks}
    \cup {Call("User", "update", UpdateArgs(i, <<"name">>, Quoted(<<"89">>))) : i \in IdToks}

Lines ==
    CreateLines \cup ShowLines \cup DestroyLines \cup AllLines \cup CountLines
    \cup UpdateLines \cup QuitLines \cup EOFLines \cup HelpLines \cup EmptyLines
    \cup DefaultLines

-----------------------------------------------------------------------------
(* cmdloop(): read a line, run its handler, go on unless it said stop.     *)

St == [objs |-> objects, snap |-> snapshot, issued |-> issued]

Init ==
    /\ objects = <<>>
    /\ snapshot = <<>>
    /\ issued = 0
    /\ mode = "prompt"
    /\ cmd = <<>>
    /\ out = <<>>
    /\ stop = FALSE

\* One pass of the loop body for a line: onecmd() runs the handler; an
\* exception that escapes the handler ends cmdloop().  There is one action
\* for each handler onecmd() can pick.
Exec(line) ==
    /\ mode = "prompt"
    /\ Typeable(line, issued)
    /\ LET r == onecmd(St, line)
       IN  /\ r.issued <= MaxCreated
           /\ objects' = r.objs
           /\ snapshot' = r.snap
           /\ issued' = r.issued
           /\ cmd' = line
           /\ out' = r.out
           /\ stop' = r.stop
           /\ mode' = IF r.exc # "" THEN "crashed" ELSE "ran"

Create == mode = "prompt" /\ \E line \in CreateLines : handler(line) = "create" /\ Exec(line)
Show == mode = "prompt" /\ \E line \in ShowLines : handler(line) = "show" /\ Exec(line)
Destroy == mode = "prompt" /\ \E line \in DestroyLines : handler(line) = "destroy" /\ Exec(line)
All == mode = "prompt" /\ \E line \in AllLines : handler(line) = "all" /\ Exec(line)
Update == mode = "prompt" /\ \E line \in UpdateLines : handler(line) = "update" /\ Exec(line)
Count == mode = "prompt" /\ \E line \in CountLines : handler(line) = "count" /\ Exec(line)
Help == mode = "prompt" /\ \E line \in HelpLines : handler(line) = "help" /\ Exec(line)
Quit == mode = "prompt" /\ \E line \in QuitLines : handler(line) = "quit" /\ Exec(line)
EOF == mode = "prompt" /\ \E line \in EOFLines : handler(line) = "EOF" /\ Exec(line)
EmptyLine == mode = "prompt" /\ \E line \in EmptyLines : handler(line) = "emptyline" /\ Exec(line)
Default == mode = "prompt" /\ \E line \in DefaultLines : handler(line) = "default" /\ Exec(line)

\* The handler returned a false value: back to the prompt for the next line.
NextPrompt ==
    /\ mode = "ran"
    /\ ~stop
    /\ mode' = "prompt"
    /\ cmd' = <<>>
    /\ out' = <<>>
    /\ UNCHANGED <<objects, snapshot, issued, stop>>

\* The handler returned True: cmdloop() returns.
Exit ==
    /\ mode = "ran"
    /\ stop
    /\ mode' = "stopped"
    /\ UNCHANGED <<objects, snapshot, issued, cmd, out, stop>>

\* The program is started again: storage.reload() reads the file.
Restart ==
    /\ mode \in {"stopped", "crashed"}
    /\ objects' = storage_reload(snapshot)
    /\ mode' = "prompt"
    /\ cmd' = <<>>
    /\ out' = <<>>
    /\ stop' = FALSE
    /\ UNCHANGED <<snapshot, issued>>

Next ==
    \/ Create \/ Show \/ Destroy \/ All \/ Update \/ Count
    \/ Help \/ Quit \/ EOF \/ EmptyLine \/ Default
    \/ NextPrompt \/ Exit \/ Restart

Spec == Init /\ [][Next]_vars

\* The same loop fed with fewer kinds of line, and with create lines for
\* every class name: create of each class, update of an id or a name,
\* destroy.
CreateOfEach ==
    mode = "prompt" /\ \E line \in {L1("create", c) : c \in AllClassToks} :
        handler(line) = "create" /\ Exec(line)

UpdateOfSome ==
    mode = "prompt" /\ \E line \in {L4("update", c, i, av[1], av[2]) :
                     c \in {<<"BaseModel">>, <<"User">>}, i \in IdToks,
                     av \in {<<<<"name">>, Quoted(<<"89">>)>>, <<ID, <<"u1">>>>}} :
        handler(line) = "update" /\ Exec(line)

DestroyOfSome ==
    mode = "prompt" /\ \E line \in {L2("destroy", c, i) : c \in {<<"BaseModel">>, <<"User">>}, i \in IdToks} :
        handler(line) = "destroy" /\ Exec(line)

NextClasses == CreateOfEach \/ UpdateOfSome \/ DestroyOfSome \/ NextPrompt

SpecClasses == Init /\ [][NextClasses]_vars

-----------------------------------------------------------------------------
(* Properties.  In a state with mode = "ran" the variables hold the line   *)
(* just processed, what it printed and the mapping it left.                *)

Ran == mode = "ran"
Verb == handler(cmd)
Arg == parseline(cmd).arg
TokOk == split(Arg).ok
Toks == split(Arg).toks

\* The seven class names the interpreter supports.
SupportedClasses == {"BaseModel", "User", "Place", "State", "City", "Amenity", "Review"}

\* The class name is absent: no argument at all, or an empty first token.
ClassMissing == Toks = <<>> \/ Toks[1] = <<>>

\* C1: for each of the seven supported classes C, in every state, `create C`
\* appends exactly one entry, keyed "C.<id>" with an id that no key and no
\* object carried before, prints that id, and `show C <id>` run in the state
\* create leaves prints the string form of the new object, with class C and
\* that id, and no error.
C1_CreateThenShow ==
    [][(/\ mode = "prompt" /\ mode' = "ran"
        /\ handler(cmd') = "create"
        /\ split(parseline(cmd').arg).ok
        /\ split(parseline(cmd').arg).toks # <<>>
        /\ \E c \in SupportedClasses : split(parseline(cmd').arg).toks[1] = <<c>>)
       => LET C == split(parseline(cmd').arg).toks[1]
              n == Len(objects)
              shown == do_show([objs |-> objects', snap |-> snapshot', issued |-> issued'],
                               C \o <<SP>> \o out'[1].id).out
          IN  /\ Len(out') = 1 /\ out'[1].kind = "id"
              /\ Len(objects') = n + 1
              /\ SubSeq(objects', 1, n) = objects
              /\ objects'[n + 1].key = C \o <<DOT>> \o out'[1].id
              /\ \A i \in 1..n : /\ objects[i].key # objects'[n + 1].key
                                 /\ objects[i].obj.attrs[ID] # out'[1].id
              /\ shown = <<str_of(objects'[n + 1].obj)>>
              /\ shown[1].cls = C[1]
              /\ shown[1].id = out'[1].id]_vars

\* C1 witness: create has just printed the id of a second object, of a
\* subclass, filed after an object of another class.
C1_Witness ==
    /\ Ran /\ Verb = "create" /\ Len(out) = 1 /\ out[1].kind = "id"
    /\ Len(objects) = 2
    /\ objects[2].obj.cls = "Review"
    /\ objects[1].obj.cls # "Review"

\* C2: whenever `destroy C id` has found and removed the key "C.id", a
\* `show C id` run next prints the not-found message and no object.
C2_DestroyThenShowNotFound ==
    (Ran /\ Verb = "destroy" /\ TokOk /\ Len(Toks) >= 2 /\ out = <<>>)
    => do_show(St, Toks[1] \o <<SP>> \o Toks[2]).out = <<E_NOT_FOUND>>

\* C3: `update C id name "X"` on a live key "C.id" leaves the object's name
\* equal to the string X, and a `show C id` run next prints that object,
\* with name X.
C3_UpdateThenShow ==
    (Ran /\ Verb = "update" /\ TokOk /\ Len(Toks) >= 4 /\ Toks[3] = <<"name">>
         /\ get(objects, Toks[1] \o <<DOT>> \o Toks[2]) # 0)
    => LET i == get(objects, Toks[1] \o <<DOT>> \o Toks[2])
           shown == do_show(St, Toks[1] \o <<SP>> \o Toks[2]).out
       IN  /\ <<"name">> \in DOMAIN objects[i].obj.attrs
           /\ objects[i].obj.attrs[<<"name">>] = Toks[4]
           /\ shown = <<str_of(objects[i].obj)>>
           /\ shown[1].dict[<<"name">>] = Toks[4]

\* C4: every entry's key is "<ClassName>.<id>" for the class name and the
\* id attribute of its value.
C4_KeyMatchesObject ==
    \A i \in 1..Len(objects) :
        objects[i].key = <<objects[i].obj.cls, DOT>> \o objects[i].obj.attrs[ID]

C6_EndsOnlyByQuitOrEOF ==
    (mode \in {"stopped", "crashed"})
    => \/ Verb = "quit" /\ strip(Arg, {SP}) = <<>>
       \/ Verb = "EOF"

\* C7: a line with one of the verbs create, show, destroy, all, update or
\* count, verb-first or dotted, never lets an exception out of its handler:
\* the loop goes on, with at most one line printed.
C7_NoExceptionEscapes ==
    (mode # "prompt" /\ Verb \in {"create", "show", "destroy", "all", "update", "count", "default"})
    => mode = "ran" /\ Len(out) <= 1

\* C8: show and update report exactly one error, the first that applies in
\* the order class name missing, instance id missing, lookup (for show: the
\* class is unknown, or no object of it has the id; for update: the key is
\* absent), attribute name missing, value missing; and none of these when
\* none applies.
C8_Expected ==
    IF ClassMissing THEN <<E_CLASS_MISSING>>
    ELSE IF Len(Toks) < 2 THEN <<E_ID_MISSING>>
    ELSE IF Verb = "show" THEN
        IF Toks[1] \notin {<<c>> : c \in SupportedClasses} THEN <<E_NO_CLASS>>
        ELSE IF ~\E i \in 1..Len(objects) :
                    /\ objects[i].obj.attrs[ID] = Toks[2]
                    /\ Toks[1] \in {<<objects[i].obj.cls>>, <<"BaseModel">>}
             THEN <<E_NOT_FOUND>>
             ELSE <<>>
    ELSE IF ~\E i \in 1..Len(objects) : objects[i].key = Toks[1] \o <<DOT>> \o Toks[2]
         THEN <<E_NOT_FOUND>>
    ELSE IF Len(Toks) < 3 THEN <<E_ATTR_MISSING>>
    ELSE IF Len(Toks) < 4 THEN <<E_VALUE_MISSING>>
    ELSE <<>>

C8_Listed ==
    {E_CLASS_MISSING, E_ID_MISSING, E_NO_CLASS, E_NOT_FOUND, E_ATTR_MISSING, E_VALUE_MISSING}

C8_ErrorOrder ==
    (Ran /\ Verb \in {"show", "update"} /\ TokOk)
    => IF C8_Expected # <<>> THEN out = C8_Expected
       ELSE \A k \in 1..Len(out) : out[k] \notin C8_Listed

\* C8 witness: `update C <unknown id>` with nothing after the id reported
\* not-found, for a class that has a live object.
C8_Witness ==
    /\ Ran /\ Verb = "update" /\ TokOk /\ Len(Toks) = 2
    /\ out = <<E_NOT_FOUND>>
    /\ \E i \in 1..Len(objects) : <<objects[i].obj.cls>> = Toks[1]

\* C9: for a class name outside the registry and any id, destroy reports
\* the unrecognized-class error, as show does for the same arguments.
C9_DestroyUnknownClass ==
    (Ran /\ Verb = "destroy" /\ TokOk /\ Len(Toks) >= 2 /\ Toks[1] # <<>>
         /\ Toks[1] \notin {<<c>> : c \in SupportedClasses})
    => out = <<E_NO_CLASS>> /\ out = do_show(St, Arg).out

\* C10: `all` prints one string per live entry; `all C` prints the string
\* forms of exactly the live objects whose class name is C, each once, and
\* prints them as a list whenever there is one.
C10_Items == IF Len(out) = 1 /\ out[1].kind = "list" THEN out[1].items ELSE <<>>

C10_Selected ==
    {i \in 1..Len(objects) : ClassMissing \/ <<objects[i].obj.cls>> = Toks[1]}

C10_AllLists ==
    (Ran /\ Verb = "all" /\ TokOk)
    => /\ Len(out) = 1
       /\ Len(C10_Items) = Cardinality(C10_Selected)
       /\ \A i \in C10_Selected : \E k \in 1..Len(C10_Items) :
              C10_Items[k] = str_of(objects[i].obj)
       /\ \A k \in 1..Len(C10_Items) : \E i \in C10_Selected :
              C10_Items[k] = str_of(objects[i].obj)
       /\ (ClassMissing \/ C10_Selected # {}) => out[1].kind = "list"

\* C10 witness: `all BaseModel` listed the one BaseModel object and left
\* out an object of a subclass.
C10_Witness ==
    /\ Ran /\ Verb = "all" /\ TokOk /\ Toks = <<<<"BaseModel">>>>
    /\ Len(objects) = 2
    /\ Len(C10_Items) = 1
    /\ \E i \in 1..2 : objects[i].obj.cls = "User"

\* C11: `count C` for a class C of the registry prints the number of live
\* objects that are instances of C, those of its subclasses included, so
\* `count BaseModel` prints the number of live objects; with no class name
\* it prints the class-name-missing error, and with a name outside the
\* registry the unrecognized-class error.
C11_Expected ==
    IF ClassMissing THEN <<E_CLASS_MISSING>>
    ELSE IF Toks[1] \notin {<<c>> : c \in SupportedClasses} THEN <<E_NO_CLASS>>
    ELSE <<[kind |-> "count",
            n |-> Cardinality({i \in 1..Len(objects) :
                                  Toks[1] \in {<<objects[i].obj.cls>>, <<"BaseModel">>}})]>>

C11_CountInstances == (Ran /\ Verb = "count" /\ TokOk) => out = C11_Expected

\* C11 witness: `count BaseModel` printed 2 with an object of a subclass
\* among the two.
C11_Witness ==
    /\ Ran /\ Verb = "count" /\ TokOk /\ Toks = <<<<"BaseModel">>>>
    /\ out = <<[kind |-> "count", n |-> 2]>>
    /\ \E i \in 1..Len(objects) : objects[i].obj.cls = "User"

\* C12: a dotted line C.show("id"), C.destroy("id"), C.all() or C.count()
\* does what the verb-first line `show C id`, `destroy C id`, `all C` or
\* `count C` would have done in the same state: the same output, the same
\* mapping and file afterwards, and the loop in the same position.
C12_Classes == {"BaseModel", "User", "Foo"}
C12_Ids == IdToks \cup {DottedId}

C12_Dotted(c, v, i) ==
    IF v \in {"all", "count"} THEN Call(c, v, <<>>) ELSE Call(c, v, Quoted(i))

C12_VerbFirst(c, v, i) ==
    IF v \in {"all", "count"} THEN L1(v, <<c>>) ELSE L2(v, <<c>>, i)

C12_DottedAsVerbFirst ==
    [][\A c \in C12_Classes, v \in {"show", "destroy", "all", "count"}, i \in C12_Ids :
           (mode = "prompt" /\ mode' # "prompt" /\ cmd' = C12_Dotted(c, v, i))
           => LET r == onecmd(St, C12_VerbFirst(c, v, i))
              IN  /\ out' = r.out
                  /\ objects' = r.objs
                  /\ snapshot' = r.snap
                  /\ stop' = r.stop
                  /\ (mode' = "crashed") = (r.exc # "")]_vars

\* C13: a dotted line C.update("id", "attr", val) does what the verb-first
\* line `update C id attr val` would have done in the same state: the same
\* output, the same mapping and file afterwards, and the loop in the same
\* position.
C13_Vals == {Quoted(<<"89">>)} \cup PunctVals

C13_DottedUpdateAsVerbFirst ==
    [][\A i \in IdToks, v \in C13_Vals :
           (mode = "prompt" /\ mode' # "prompt"
                /\ cmd' = Call("User", "update", UpdateArgs(i, <<"name">>, v)))
           => LET r == onecmd(St, L4("update", <<"User">>, i, <<"name">>, v))
              IN  /\ out' = r.out
                  /\ objects' = r.objs
                  /\ snapshot' = r.snap
                  /\ stop' = r.stop
                  /\ (mode' = "crashed") = (r.exc # "")]_vars

\* C14: a dotted update whose value has a comma inside, typed bare or
\* between quotes, on a live key stores the whole value under the attribute
\* name, prints nothing, and the loop goes on.
C14_CommaValueStoredWhole ==
    \A q \in {<<"8", COMMA, "9">>, Quoted(<<"8", COMMA, "9">>)} :
        (/\ mode # "prompt"
         /\ cmd = Call("User", "update", UpdateArgs(<<"u1">>, <<"name">>, q))
         /\ get(objects, <<"User", DOT, "u1">>) # 0)
        => LET attrs == objects[get(objects, <<"User", DOT, "u1">>)].obj.attrs
           IN  /\ mode = "ran"
               /\ out = <<>>
               /\ <<"name">> \in DOMAIN attrs
               /\ attrs[<<"name">>] = <<"8", COMMA, "9">>

\* C15: a line whose first token is no verb and that is not of the form
\* <ClassName>.<verb>(<args>) with one of the verbs all, count, show,
\* destroy, update prints the unknown-syntax message and nothing else,
\* leaves the mapping and the file as they were, and the loop goes on.
C15_DottedForm(line) ==
    /\ Len(line) >= 5
    /\ line[1] \notin Special
    /\ line[2] = DOT
    /\ line[3] \in {"all", "count", "show", "destroy", "update"}
    /\ line[4] = LP
    /\ line[Len(line)] = RP

C15_UnknownSyntax ==
    [][(/\ mode = "prompt" /\ mode' # "prompt"
        /\ handler(cmd') = "default"
        /\ ~C15_DottedForm(parseline(cmd').line))
       => /\ mode' = "ran"
          /\ ~stop'
          /\ out' = <<unknown_syntax(parseline(cmd').line)>>
          /\ objects' = objects
          /\ snapshot' = snapshot]_vars

\* C16: every command writes at most one line to standard output, and
\* every error line it writes starts with "**".
C16_ErrorsStarred ==
    \A k \in 1..Len(out) : out[k].kind = "err" => SubSeq(out[k].text, 1, 2) = "**"

C16_AtMostOneLine == (mode # "prompt") => (Len(out) <= 1 /\ C16_ErrorsStarred)

\* C16, leaving help's line count out: every command other than help
\* writes at most one line to standard output, and every error line any
\* command writes, help included, starts with "**".
C16_AtMostOneLineButHelp ==
    (mode # "prompt") => ((Verb # "help" => Len(out) <= 1) /\ C16_ErrorsStarred)

\* C16 witness: show found two objects carrying the id asked for and
\* printed one line.
C16_Witness ==
    /\ Ran /\ Verb = "show" /\ TokOk /\ Len(Toks) = 2
    /\ Cardinality({i \in 1..Len(objects) : objects[i].obj.attrs[ID] = Toks[2]}) = 2
    /\ Len(out) = 1 /\ out[1].kind = "obj"

\* C17: `all C` prints the class-doesn't-exist message exactly when no live
\* object has class name C, be C a supported class or not, and a non-empty
\* list otherwise; `all` with no class name prints a list, the empty one
\* when the mapping is empty, and never that message.
C17_AllClassError ==
    (Ran /\ Verb = "all" /\ TokOk)
    => IF ClassMissing
       THEN /\ Len(out) = 1 /\ out[1].kind = "list"
            /\ Len(out[1].items) = Len(objects)
       ELSE /\ (out = <<E_NO_CLASS>>)
                   <=> ~\E i \in 1..Len(objects) : <<objects[i].obj.cls>> = Toks[1]
            /\ out # <<E_NO_CLASS>>
                   => Len(out) = 1 /\ out[1].kind = "list" /\ out[1].items # <<>>

\* C17 witness: `all City` reported the class as missing while the mapping
\* held objects of other classes.
C17_Witness ==
    /\ Ran /\ Verb = "all" /\ TokOk /\ Toks = <<<<"City">>>>
    /\ out = <<E_NO_CLASS>>
    /\ Len(objects) = 2

\* C18: for a supported class C and an id, `show C id` prints an object
\* exactly when the mapping has the key "C.id", and exactly when
\* `destroy C id` and `update C id name 89`, run in the same state, do not
\* report not-found.
C18_ShowIffKey ==
    (Ran /\ Verb = "show" /\ TokOk /\ Len(Toks) >= 2
         /\ Toks[1] \in {<<c>> : c \in SupportedClasses})
    => LET printed == Len(out) = 1 /\ out[1].kind = "obj"
           both == Toks[1] \o <<SP>> \o Toks[2]
       IN  /\ printed <=> (get(objects, Toks[1] \o <<DOT>> \o Toks[2]) # 0)
           /\ printed <=> (do_destroy(St, both).out # <<E_NOT_FOUND>>)
           /\ printed <=> (do_update(St, both \o <<SP, "name", SP, "89">>).out # <<E_NOT_FOUND>>)

\* C19: show, all, count, help, quit and EOF, verb-first or dotted, every
\* line answered with the unknown-syntax message, and every create, destroy
\* or update that prints an error message leave the mapping, with every
\* object's attributes, and the file as they were.
C19_Command(line) ==
    LET l == parseline(line).line
    IN  IF handler(line) # "default" THEN handler(line)
        ELSE IF Len(l) >= 3 /\ l[2] = DOT THEN l[3]
        ELSE "default"

C20_Keys(objs) == {objs[i].key : i \in 1..Len(objs)}

C20_Destroyed(K) ==
    /\ C20_Keys(objects') = C20_Keys(objects) \ {K}
    /\ Len(objects') = Len(objects) - 1
    /\ \A i \in 1..Len(objects) : objects[i].key # K =>
           \E j \in 1..Len(objects') : objects'[j] = objects[i]

C20_Updated(K, a) ==
    /\ Len(objects') = Len(objects)
    /\ \A i \in 1..Len(objects) :
           /\ objects'[i].key = objects[i].key
           /\ objects[i].key # K => objects'[i] = objects[i]
           /\ objects[i].key = K =>
                  /\ objects'[i].obj.cls = objects[i].obj.cls
                  /\ DOMAIN objects'[i].obj.attrs = DOMAIN objects[i].obj.attrs \cup {a}
                  /\ \A b \in DOMAIN objects[i].obj.attrs \ {a} :
                         objects'[i].obj.attrs[b] = objects[i].obj.attrs[b]

C20_Created ==
    /\ Len(objects') = Len(objects) + 1
    /\ SubSeq(objects', 1, Len(objects)) = objects
    /\ objects'[Len(objects')].key \notin C20_Keys(objects)

C20_OneEntryChanges ==
    [][(mode = "prompt" /\ mode' = "ran" /\ split(parseline(cmd').arg).ok)
       => LET h == handler(cmd')
              toks == split(parseline(cmd').arg).toks
          IN  /\ (h = "destroy" /\ Len(toks) >= 2 /\ out' = <<>>)
                     => C20_Destroyed(toks[1] \o <<DOT>> \o toks[2])
              /\ (h = "update" /\ Len(toks) >= 4 /\ out' = <<>>)
                     => C20_Updated(toks[1] \o <<DOT>> \o toks[2], toks[3])
              /\ (h = "create" /\ Len(out') = 1 /\ out'[1].kind = "id")
                     => C20_Created]_vars

\* C20 witness: a destroy has just removed one of two objects that carried
\* the same id and left the other.
C20_Witness ==
    /\ Ran /\ Verb = "destroy" /\ TokOk /\ Len(Toks) = 2 /\ out = <<>>
    /\ Len(objects) = 1
    /\ objects[1].obj.attrs[ID] = Toks[2]
    /\ objects[1].key # Toks[1] \o <<DOT>> \o Toks[2]

====
